---- MODULE Spec2Model ----
(***************************************************************************)
(* A model of the two page enhancements of RentARide:                      *)
(*   src/js/parallax.js  ParallaxController (spring-settled parallax)      *)
(*   src/js/carousel.js  Carousel (index navigation and autoplay)          *)
(*                                                                         *)
(* JavaScript Numbers are modelled as fixed-point integers: the integer n  *)
(* stands for the real n / Scale.  Every product and quotient is rounded   *)
(* to the nearest multiple of 1 / Scale, as the code's arithmetic rounds   *)
(* to the nearest double; sums and differences are exact.                  *)
(***************************************************************************)
EXTENDS Integers, Sequences, FiniteSets, TLC

VARIABLES
    \* ---- ParallaxController (parallax.js) ----
    layerStates,    \* this.layerStates: layer -> [currentY, targetY, velocity, speed]
    targetScroll,   \* this.targetScroll
    scrollY,        \* window.scrollY (the hero's top edge is at -scrollY)
    rafId,          \* this.rafId (Null before the first animate())
    rafPending,     \* animation-frame callbacks the browser holds for this controller
    nextRafId,      \* the handle the next requestAnimationFrame() returns
    pc,             \* "registered" (inside init(), before line 59), "running", "destroyed"
    ticks,          \* number of animate() calls made so far
    lastTick,       \* [layer -> <<currentY, velocity>>] as written by the latest animate()
    soloLayer,      \* second run: a page whose only layer is this one
    soloStates,     \* second run: its layerStates, fed the same scroll events
    \* ---- calculateSpring applied repeatedly to one channel (target held) ----
    probe,          \* [current, target, velocity]
    probe0,         \* the inputs the run started from
    probeTicks,     \* number of calculateSpring applications so far
    passed,         \* TRUE once current has been strictly beyond the target
    \* ---- Carousel (carousel.js) ----
    currentIndex,      \* this.currentIndex
    slidesPerView,     \* this.slidesPerView
    totalSlides,       \* this.totalSlides
    maxIndex,          \* this.maxIndex
    autoplayInterval,  \* this.autoplayInterval (Null or a timer handle)
    liveIntervals,     \* interval timers the browser holds
    nextTimerId,       \* the handle the next setInterval() returns
    hovered,           \* TRUE after mouseenter with no later mouseleave
    destroyed,         \* TRUE after Carousel.destroy()
    touchStartX,       \* closure variable touchStartX of bindEvents
    scrollTimeout,     \* TRUE while the scroll-snap timeout is pending
    scrollLeft,        \* this.track.scrollLeft
    autoplayAdvances   \* number of times the autoplay interval called next()

pvars == <<layerStates, targetScroll, scrollY, rafId, rafPending, nextRafId, pc,
           ticks, lastTick, soloLayer, soloStates>>
svars == <<probe, probe0, probeTicks, passed>>
cvars == <<currentIndex, slidesPerView, totalSlides, maxIndex, autoplayInterval,
           liveIntervals, nextTimerId, hovered, destroyed, touchStartX,
           scrollTimeout, scrollLeft, autoplayAdvances>>
vars == <<pvars, svars, cvars>>

\* null, as the handle fields hold it: the code tests them for truthiness, timer and
\* animation-frame handles are positive, and null and 0 are both falsy
Null == 0

-----------------------------------------------------------------------------
(* Numbers *)

Scale == 1000

Abs(x) == IF x < 0 THEN -x ELSE x
Max(a, b) == IF a >= b THEN a ELSE b
Min(a, b) == IF a <= b THEN a ELSE b

\* a / b rounded to the nearest integer (b > 0)
RDiv(a, b) == (2 * a + b) \div (2 * b)
\* product and quotient of two fixed-point numbers
FMul(a, b) == RDiv(a * b, Scale)
FDiv(a, b) == RDiv(a * Scale, b)

-----------------------------------------------------------------------------
(* Bounds of the model *)

MaxTicks == 6          \* animate() calls explored in Spec
MaxSpringTicks == 300  \* calculateSpring applications explored in SpecSpring

-----------------------------------------------------------------------------
(* ParallaxController *)

\* damping with the decimal point one place off (0.085)
damping_Slipped == (85 * Scale) \div 1000

\* this.spring
stiffness == (8 * Scale) \div 100
damping == (85 * Scale) \div 100
mass == 1 * Scale

\* calculateSpring moving the position by the velocity of the previous tick
calculateSpring_OldVelocity(current, target, velocity) ==
    LET displacement == current - target
        springForce == -FMul(stiffness, displacement)
        dampingForce == -FMul(damping, velocity)
        acceleration == FDiv(springForce + dampingForce, mass)
        newVelocity == velocity + acceleration
        newPosition == current + velocity
    IN [position |-> newPosition, velocity |-> newVelocity]

\* calculateSpring pulling toward 0 instead of toward the target
calculateSpring_NoTarget(current, target, velocity) ==
    LET displacement == current
        springForce == -FMul(stiffness, displacement)
        dampingForce == -FMul(damping, velocity)
        acceleration == FDiv(springForce + dampingForce, mass)
        newVelocity == velocity + acceleration
        newPosition == current + newVelocity
    IN [position |-> newPosition, velocity |-> newVelocity]

\* calculateSpring with the sign of the damping force lost
calculateSpring_DampingSign(current, target, velocity) ==
    LET displacement == current - target
        springForce == -FMul(stiffness, displacement)
        dampingForce == FMul(damping, velocity)
        acceleration == FDiv(springForce + dampingForce, mass)
        newVelocity == velocity + acceleration
        newPosition == current + newVelocity
    IN [position |-> newPosition, velocity |-> newVelocity]

\* calculateSpring(current, target, velocity)
calculateSpring(current, target, velocity) ==
    LET displacement == current - target
        springForce == -FMul(stiffness, displacement)
        dampingForce == -FMul(damping, velocity)
        acceleration == FDiv(springForce + dampingForce, mass)
        newVelocity == velocity + acceleration
        newPosition == current + newVelocity
    IN [position |-> newPosition, velocity |-> newVelocity]

\* The page: the .hero-layer[data-speed] elements in document order, then
\* .hero-content, which is the order layerStates (a Map) is filled and iterated in.
LayerOrder == <<"layerBack", "layerMid", "layerFront", "heroContent">>
Layers == {LayerOrder[i] : i \in 1..Len(LayerOrder)}

\* parseFloat(layer.dataset.speed) of each element: <<x>> for the number x,
\* <<>> for NaN (no data-speed attribute, or no number in it)
DataSpeed(layer) ==
    CASE layer = "layerBack" -> <<(2 * Scale) \div 10>>
      [] layer = "layerMid" -> <<1 * Scale>>
      [] layer = "layerFront" -> <<0>>
      [] OTHER -> <<>>

\* parseFloat(layer.dataset.speed) || 0.5
ParseSpeed(layer) ==
    LET parsed == DataSpeed(layer)
    IN IF parsed = <<>> \/ parsed[1] = 0 THEN Scale \div 2 ELSE parsed[1]

\* a layer state whose currentY starts at the layer's speed
NewLayerState_SpeedAsCurrent(layer) ==
    [currentY |-> ParseSpeed(layer), targetY |-> 0, velocity |-> 0, speed |-> ParseSpeed(layer)]

\* the state object init() stores for a layer
NewLayerState(layer) ==
    [currentY |-> 0, targetY |-> 0, velocity |-> 0, speed |-> ParseSpeed(layer)]

\* The hero is HeroHeight px tall and starts at the top of the document; the
\* window is InnerHeight px tall.
HeroHeight == 1000 * Scale
InnerHeight == 800 * Scale
ScrollPositions == {0, 200 * Scale, 500 * Scale, 1000 * Scale}

\* heroRect.top for a given window.scrollY
HeroTop(y) == -y

\* isInView of animate()
IsInView(heroTop) == heroTop < InnerHeight /\ heroTop + HeroHeight > 0

\* state.targetY = scrollProgress * maxOffset * state.speed
TargetY(heroTop, speed) ==
    LET scrollProgress == Max(0, FDiv(-heroTop, HeroHeight))
        maxOffset == RDiv(HeroHeight * 3, 10)
    IN FMul(FMul(scrollProgress, maxOffset), speed)

\* the body of the forEach callback of animate(), for one layer's state
UpdateLayer(state, heroTop) ==
    LET target == TargetY(heroTop, state.speed)
        springResult == calculateSpring(state.currentY, target, state.velocity)
    IN [state EXCEPT !.targetY = target,
                     !.currentY = springResult.position,
                     !.velocity = springResult.velocity]

\* the forEach of animate() with one velocity shared by the layers (the first one's)
ForEachLayer_SharedVelocity(states, keys, heroTop) ==
    [l \in DOMAIN states |->
        IF \E i \in 1..Len(keys) : keys[i] = l
        THEN UpdateLayer([states[l] EXCEPT !.velocity = states[keys[1]].velocity], heroTop)
        ELSE states[l]]

RECURSIVE ForEachLayer(_, _, _)
\* this.layerStates.forEach(...) of animate(): the layers in insertion order
ForEachLayer(states, keys, heroTop) ==
    IF keys = <<>> THEN states
    ELSE ForEachLayer([states EXCEPT ![Head(keys)] = UpdateLayer(states[Head(keys)], heroTop)],
                      Tail(keys), heroTop)

\* the layer part of animate() (lines 103-135)
AnimateLayers(states, keys, y) ==
    IF IsInView(HeroTop(y)) THEN ForEachLayer(states, keys, HeroTop(y)) ELSE states

\* requestAnimationFrame(callback): the browser's pending callbacks afterwards
requestAnimationFrame(pending, id) == pending \cup {id}

\* cancelAnimationFrame(id)
cancelAnimationFrame(pending, id) == pending \ {id}

\* a scroll listener that also stops every layer
onScroll_ResetsVelocity(fields, y) ==
    [fields EXCEPT !.targetScroll = y,
                   !.layerStates = [l \in DOMAIN @ |-> [@[l] EXCEPT !.velocity = 0]]]

\* the scroll listener of bindEvents: what it does to the controller's fields
onScroll(fields, y) == [fields EXCEPT !.targetScroll = y]

Written(states) == [l \in DOMAIN states |-> <<states[l].currentY, states[l].velocity>>]

\* animate(), called from init() or as an animation-frame callback
Animate ==
    /\ layerStates' = AnimateLayers(layerStates, LayerOrder, scrollY)
    /\ soloStates' = AnimateLayers(soloStates, <<soloLayer>>, scrollY)
    /\ lastTick' = Written(layerStates')
    /\ rafId' = nextRafId
    /\ nextRafId' = nextRafId + 1
    /\ ticks' = ticks + 1

\* the constructor up to line 56: fields set, layers registered, events bound
PInit ==
    /\ layerStates = [l \in Layers |-> NewLayerState(l)]
    /\ targetScroll = 0
    /\ scrollY \in ScrollPositions
    /\ rafId = Null
    /\ rafPending = {}
    /\ nextRafId = 1
    /\ pc = "registered"
    /\ ticks = 0
    /\ lastTick = Written(layerStates)
    /\ soloLayer \in Layers
    /\ soloStates = [l \in {soloLayer} |-> NewLayerState(l)]

\* init() line 59: this.animate()
InitAnimate ==
    /\ pc = "registered"
    /\ Animate
    /\ rafPending' = requestAnimationFrame(rafPending, nextRafId)
    /\ pc' = "running"
    /\ UNCHANGED <<targetScroll, scrollY, soloLayer>>

\* the browser runs a pending animation-frame callback: () => this.animate()
AnimationFrame ==
    /\ ticks < MaxTicks
    /\ \E id \in rafPending :
         /\ Animate
         /\ rafPending' = requestAnimationFrame(rafPending \ {id}, nextRafId)
    /\ UNCHANGED <<targetScroll, scrollY, soloLayer, pc>>

\* a scroll listener that also calls animate()
Scroll_Animates ==
    /\ pc # "registered"
    /\ ticks < MaxTicks
    /\ \E y \in ScrollPositions \ {scrollY} :
         /\ scrollY' = y
         /\ targetScroll' = y
    /\ Animate
    /\ rafPending' = requestAnimationFrame(rafPending, nextRafId)
    /\ UNCHANGED <<pc, soloLayer>>

\* the window scrolls to y and the scroll listener runs
Scroll ==
    /\ pc # "registered"
    /\ \E y \in ScrollPositions \ {scrollY} :
         LET after == onScroll([targetScroll |-> targetScroll, layerStates |-> layerStates], y)
         IN /\ scrollY' = y
            /\ targetScroll' = after.targetScroll
            /\ layerStates' = after.layerStates
    /\ UNCHANGED <<rafId, rafPending, nextRafId, pc, ticks, lastTick, soloLayer, soloStates>>

\* the resize listener: recalculateBounds() does nothing
Resize ==
    /\ pc # "registered"
    /\ UNCHANGED pvars

\* destroy()
Destroy ==
    /\ pc = "running"
    /\ rafPending' = IF rafId # Null THEN cancelAnimationFrame(rafPending, rafId) ELSE rafPending
    /\ pc' = "destroyed"
    /\ UNCHANGED <<layerStates, targetScroll, scrollY, rafId, nextRafId, ticks, lastTick,
                   soloLayer, soloStates>>

-----------------------------------------------------------------------------
(* calculateSpring on one channel whose target is held *)

ProbeCurrents == {0, 100 * Scale, -50 * Scale, (375 * Scale) \div 10}
ProbeTargets == {0, 100 * Scale, -50 * Scale, 250 * Scale}
ProbeVelocities == {0, 8 * Scale, -((32 * Scale) \div 10)}

\* current is strictly on the other side of the target than the run's start
Beyond(current) ==
    \/ probe0.current < probe0.target /\ current > probe0.target
    \/ probe0.current > probe0.target /\ current < probe0.target

SInit ==
    /\ probe0 \in [current : ProbeCurrents, target : ProbeTargets, velocity : ProbeVelocities]
    /\ probe = probe0
    /\ probeTicks = 0
    /\ passed = FALSE

\* one tick of the channel: lines 121-128 of animate() with the target unchanged
SpringStep ==
    /\ probeTicks < MaxSpringTicks
    /\ LET springResult == calculateSpring(probe.current, probe.target, probe.velocity)
       IN /\ probe' = [probe EXCEPT !.current = springResult.position,
                                    !.velocity = springResult.velocity]
          /\ passed' = (passed \/ Beyond(springResult.position))
    /\ probeTicks' = probeTicks + 1
    /\ UNCHANGED probe0

-----------------------------------------------------------------------------
(* Carousel *)

MaxSlides == 4      \* the page holds 0..MaxSlides slides
MaxTimers == 5      \* setInterval() calls explored
MaxAdvances == 2    \* autoplay callbacks explored

ViewportWidths == {320, 600, 1024}        \* window.innerWidth
TouchXs == {0, 50, 120}                   \* screenX of a touch
SlideWidths == {300}                      \* slides[0].offsetWidth
ScrollLefts == {-200, 0, 330, 640, 2000}  \* track.scrollLeft (negative: overscroll)
Keys == {"ArrowLeft", "ArrowRight", "Enter"}

\* calculateSlidesPerView()
calculateSlidesPerView(viewportWidth) ==
    IF viewportWidth < 480 THEN 1
    ELSE IF viewportWidth < 768 THEN 2
    ELSE 3

\* Math.max(0, this.totalSlides - this.slidesPerView)
MaxIndexOf(total, perView) == Max(0, total - perView)

\* Math.round(a / b) for b > 0: the nearest integer, a half rounding up
MathRound(a, b) == (2 * a + b) \div (2 * b)

\* the three fields the autoplay methods work on
Timers == [autoplayInterval |-> autoplayInterval, liveIntervals |-> liveIntervals,
           nextTimerId |-> nextTimerId]

\* pauseAutoplay()
pauseAutoplay(t) ==
    IF t.autoplayInterval # Null
    THEN [t EXCEPT !.liveIntervals = @ \ {t.autoplayInterval}, !.autoplayInterval = Null]
    ELSE t

\* startAutoplay() without the pauseAutoplay() call that clears the old interval
startAutoplay_NoClear(t) ==
    [autoplayInterval |-> t.nextTimerId,
     liveIntervals |-> t.liveIntervals \cup {t.nextTimerId},
     nextTimerId |-> t.nextTimerId + 1]

\* startAutoplay()
startAutoplay(t) ==
    LET p == pauseAutoplay(t)
    IN [autoplayInterval |-> p.nextTimerId,
        liveIntervals |-> p.liveIntervals \cup {p.nextTimerId},
        nextTimerId |-> p.nextTimerId + 1]

\* resetAutoplay()
resetAutoplay(t) == startAutoplay(pauseAutoplay(t))

SetTimers(t) ==
    /\ autoplayInterval' = t.autoplayInterval
    /\ liveIntervals' = t.liveIntervals
    /\ nextTimerId' = t.nextTimerId

\* goToSlide(index): the new currentIndex
goToSlide(index, maxIdx) == Max(0, Min(index, maxIdx))

\* next(): the new currentIndex
next(index, maxIdx) == IF index < maxIdx THEN index + 1 ELSE 0

\* prev() that stops at the first slide instead of looping to the end
prev_NoWrap(index, maxIdx) == Max(0, index - 1)

\* prev(): the new currentIndex
prev(index, maxIdx) == IF index > 0 THEN index - 1 ELSE maxIdx

\* syncIndexFromScroll(): the new currentIndex
syncIndexFromScroll(index, maxIdx, total, slideWidth, scrollPosition) ==
    IF total = 0 THEN index
    ELSE LET newIndex == MathRound(scrollPosition, slideWidth + 20)
         IN IF newIndex # index THEN Min(newIndex, maxIdx) ELSE index

\* new Carousel(container): the state once the constructor has returned
CInit ==
    /\ totalSlides \in 0..MaxSlides
    /\ \E w \in ViewportWidths : slidesPerView = calculateSlidesPerView(w)
    /\ maxIndex = MaxIndexOf(totalSlides, slidesPerView)
    /\ currentIndex = 0
    /\ LET t == startAutoplay([autoplayInterval |-> Null, liveIntervals |-> {},
                               nextTimerId |-> 1])
       IN /\ autoplayInterval = t.autoplayInterval
          /\ liveIntervals = t.liveIntervals
          /\ nextTimerId = t.nextTimerId
    /\ hovered = FALSE
    /\ destroyed = FALSE
    /\ touchStartX = 0
    /\ scrollTimeout = FALSE
    /\ scrollLeft = 0
    /\ autoplayAdvances = 0

\* click on .carousel-prev
ClickPrev ==
    /\ nextTimerId <= MaxTimers
    /\ currentIndex' = prev(currentIndex, maxIndex)
    /\ SetTimers(resetAutoplay(Timers))
    /\ UNCHANGED <<slidesPerView, totalSlides, maxIndex, hovered, destroyed, touchStartX,
                   scrollTimeout, scrollLeft, autoplayAdvances>>

\* click on .carousel-next
ClickNext ==
    /\ nextTimerId <= MaxTimers
    /\ currentIndex' = next(currentIndex, maxIndex)
    /\ SetTimers(resetAutoplay(Timers))
    /\ UNCHANGED <<slidesPerView, totalSlides, maxIndex, hovered, destroyed, touchStartX,
                   scrollTimeout, scrollLeft, autoplayAdvances>>

\* keydown on the container
KeyDown ==
    /\ nextTimerId <= MaxTimers
    /\ \E key \in Keys :
         IF key = "ArrowLeft"
         THEN /\ currentIndex' = prev(currentIndex, maxIndex)
              /\ SetTimers(resetAutoplay(Timers))
         ELSE IF key = "ArrowRight"
         THEN /\ currentIndex' = next(currentIndex, maxIndex)
              /\ SetTimers(resetAutoplay(Timers))
         ELSE UNCHANGED <<currentIndex, autoplayInterval, liveIntervals, nextTimerId>>
    /\ UNCHANGED <<slidesPerView, totalSlides, maxIndex, hovered, destroyed, touchStartX,
                   scrollTimeout, scrollLeft, autoplayAdvances>>

\* touchstart on the track
TouchStart ==
    /\ \E x \in TouchXs \ {touchStartX} : touchStartX' = x
    /\ UNCHANGED <<currentIndex, slidesPerView, totalSlides, maxIndex, autoplayInterval,
                   liveIntervals, nextTimerId, hovered, destroyed, scrollTimeout,
                   scrollLeft, autoplayAdvances>>

\* touchend on the track: handleSwipe(touchStartX, touchEndX)
TouchEnd ==
    /\ nextTimerId <= MaxTimers
    /\ \E touchEndX \in TouchXs :
         LET diff == touchStartX - touchEndX
         IN IF Abs(diff) > 50
            THEN /\ currentIndex' = IF diff > 0 THEN next(currentIndex, maxIndex)
                                    ELSE prev(currentIndex, maxIndex)
                 /\ SetTimers(resetAutoplay(Timers))
            ELSE UNCHANGED <<currentIndex, autoplayInterval, liveIntervals, nextTimerId>>
    /\ UNCHANGED <<slidesPerView, totalSlides, maxIndex, hovered, destroyed, touchStartX,
                   scrollTimeout, scrollLeft, autoplayAdvances>>

\* mouseenter on the container
MouseEnter ==
    /\ ~hovered
    /\ hovered' = TRUE
    /\ SetTimers(pauseAutoplay(Timers))
    /\ UNCHANGED <<currentIndex, slidesPerView, totalSlides, maxIndex, destroyed,
                   touchStartX, scrollTimeout, scrollLeft, autoplayAdvances>>

\* mouseleave on the container
MouseLeave ==
    /\ hovered
    /\ nextTimerId <= MaxTimers
    /\ hovered' = FALSE
    /\ SetTimers(startAutoplay(Timers))
    /\ UNCHANGED <<currentIndex, slidesPerView, totalSlides, maxIndex, destroyed,
                   touchStartX, scrollTimeout, scrollLeft, autoplayAdvances>>

\* the resize listener without line 104, the clamp of currentIndex
CarouselResize_NoClamp ==
    /\ \E w \in ViewportWidths :
         /\ slidesPerView' = calculateSlidesPerView(w)
         /\ maxIndex' = MaxIndexOf(totalSlides, slidesPerView')
    /\ UNCHANGED <<currentIndex, totalSlides, autoplayInterval, liveIntervals, nextTimerId,
                   hovered, destroyed, touchStartX, scrollTimeout, scrollLeft,
                   autoplayAdvances>>

\* resize of the window
CarouselResize ==
    /\ \E w \in ViewportWidths :
         /\ slidesPerView' = calculateSlidesPerView(w)
         /\ maxIndex' = MaxIndexOf(totalSlides, slidesPerView')
         /\ currentIndex' = Min(currentIndex, maxIndex')
    /\ UNCHANGED <<totalSlides, autoplayInterval, liveIntervals, nextTimerId, hovered,
                   destroyed, touchStartX, scrollTimeout, scrollLeft, autoplayAdvances>>

\* scroll of the track: the snap-detection timeout is (re)armed
TrackScroll ==
    /\ \E pos \in ScrollLefts \ {scrollLeft} : scrollLeft' = pos
    /\ scrollTimeout' = TRUE
    /\ UNCHANGED <<currentIndex, slidesPerView, totalSlides, maxIndex, autoplayInterval,
                   liveIntervals, nextTimerId, hovered, destroyed, touchStartX,
                   autoplayAdvances>>

\* the snap-detection timeout fires: syncIndexFromScroll()
ScrollSettled ==
    /\ scrollTimeout
    /\ scrollTimeout' = FALSE
    /\ \E w \in SlideWidths :
         currentIndex' = syncIndexFromScroll(currentIndex, maxIndex, totalSlides, w, scrollLeft)
    /\ UNCHANGED <<slidesPerView, totalSlides, maxIndex, autoplayInterval, liveIntervals,
                   nextTimerId, hovered, destroyed, touchStartX, scrollLeft,
                   autoplayAdvances>>

\* click on a dot, or any other call of goToSlide(i)
GoToSlide ==
    /\ \E i \in -1..(MaxSlides + 1) : currentIndex' = goToSlide(i, maxIndex)
    /\ UNCHANGED <<slidesPerView, totalSlides, maxIndex, autoplayInterval, liveIntervals,
                   nextTimerId, hovered, destroyed, touchStartX, scrollTimeout,
                   scrollLeft, autoplayAdvances>>

\* a live interval timer fires: () => this.next()
AutoplayFires ==
    /\ autoplayAdvances < MaxAdvances
    /\ liveIntervals # {}
    /\ currentIndex' = next(currentIndex, maxIndex)
    /\ autoplayAdvances' = autoplayAdvances + 1
    /\ UNCHANGED <<slidesPerView, totalSlides, maxIndex, autoplayInterval, liveIntervals,
                   nextTimerId, hovered, destroyed, touchStartX, scrollTimeout, scrollLeft>>

\* destroy()
CarouselDestroy ==
    /\ ~destroyed
    /\ destroyed' = TRUE
    /\ SetTimers(pauseAutoplay(Timers))
    /\ UNCHANGED <<currentIndex, slidesPerView, totalSlides, maxIndex, hovered,
                   touchStartX, scrollTimeout, scrollLeft, autoplayAdvances>>

-----------------------------------------------------------------------------
(* Specifications *)

\* the parts of the page a specification leaves alone
PIdle ==
    /\ layerStates = [l \in Layers |-> NewLayerState(l)]
    /\ targetScroll = 0 /\ scrollY = 0 /\ rafId = Null /\ rafPending = {}
    /\ nextRafId = 1 /\ pc = "registered" /\ ticks = 0
    /\ lastTick = Written(layerStates)
    /\ soloLayer = "heroContent"
    /\ soloStates = [l \in {soloLayer} |-> NewLayerState(l)]
SIdle ==
    /\ probe0 = [current |-> 0, target |-> 0, velocity |-> 0]
    /\ probe = probe0 /\ probeTicks = 0 /\ passed = FALSE
CIdle ==
    /\ totalSlides = 0 /\ slidesPerView = 3 /\ maxIndex = 0 /\ currentIndex = 0
    /\ autoplayInterval = Null /\ liveIntervals = {} /\ nextTimerId = 1
    /\ hovered = FALSE /\ destroyed = FALSE /\ touchStartX = 0
    /\ scrollTimeout = FALSE /\ scrollLeft = 0 /\ autoplayAdvances = 0

\* ParallaxController on a page
Init == PInit /\ SIdle /\ CIdle
Next ==
    \/ InitAnimate /\ UNCHANGED <<svars, cvars>>
    \/ AnimationFrame /\ UNCHANGED <<svars, cvars>>
    \/ Scroll /\ UNCHANGED <<svars, cvars>>
    \/ Resize /\ UNCHANGED <<svars, cvars>>
    \/ Destroy /\ UNCHANGED <<svars, cvars>>
Spec == Init /\ [][Next]_vars

\* calculateSpring iterated on one channel
SpringInit == SInit /\ PIdle /\ CIdle
SpringNext == SpringStep /\ UNCHANGED <<pvars, cvars>>
SpecSpring == SpringInit /\ [][SpringNext]_vars

\* Carousel on a page
CarouselInit == CInit /\ PIdle /\ SIdle
CarouselNext ==
    \/ ClickPrev /\ UNCHANGED <<pvars, svars>>
    \/ ClickNext /\ UNCHANGED <<pvars, svars>>
    \/ KeyDown /\ UNCHANGED <<pvars, svars>>
    \/ TouchStart /\ UNCHANGED <<pvars, svars>>
    \/ TouchEnd /\ UNCHANGED <<pvars, svars>>
    \/ MouseEnter /\ UNCHANGED <<pvars, svars>>
    \/ MouseLeave /\ UNCHANGED <<pvars, svars>>
    \/ CarouselResize /\ UNCHANGED <<pvars, svars>>
    \/ TrackScroll /\ UNCHANGED <<pvars, svars>>
    \/ ScrollSettled /\ UNCHANGED <<pvars, svars>>
    \/ GoToSlide /\ UNCHANGED <<pvars, svars>>
    \/ AutoplayFires /\ UNCHANGED <<pvars, svars>>
    \/ CarouselDestroy /\ UNCHANGED <<pvars, svars>>
SpecCarousel == CarouselInit /\ [][CarouselNext]_vars

\* Carousel driven by navigation and resize only: the track reports no scroll
CarouselNavNext ==
    \/ ClickPrev /\ UNCHANGED <<pvars, svars>>
    \/ ClickNext /\ UNCHANGED <<pvars, svars>>
    \/ KeyDown /\ UNCHANGED <<pvars, svars>>
    \/ TouchStart /\ UNCHANGED <<pvars, svars>>
    \/ TouchEnd /\ UNCHANGED <<pvars, svars>>
    \/ MouseEnter /\ UNCHANGED <<pvars, svars>>
    \/ MouseLeave /\ UNCHANGED <<pvars, svars>>
    \/ CarouselResize /\ UNCHANGED <<pvars, svars>>
    \/ GoToSlide /\ UNCHANGED <<pvars, svars>>
    \/ AutoplayFires /\ UNCHANGED <<pvars, svars>>
SpecCarouselNav == CarouselInit /\ [][CarouselNavNext]_vars

-----------------------------------------------------------------------------
(* Properties of calculateSpring (SpecSpring) *)

ProbeDistance == Abs(probe.current - probe.target)

\* C1: one tick sets velocity to velocity + (-stiffness * (current - target)
\* - damping * velocity) / mass (to the resolution 1 / Scale of the numbers) and
\* then current to current + the NEW velocity; from current = 0, velocity = 0 and
\* target = 100 one tick gives velocity = 8 and current = 8 exactly.
C1_TickFormula ==
    [][probeTicks' = probeTicks + 1 =>
        /\ Abs(mass * (probe'.velocity - probe.velocity)
               - (-(stiffness * (probe.current - probe.target)) - damping * probe.velocity))
             <= Scale
        /\ probe'.current = probe.current + probe'.velocity
        /\ (probe.current = 0 /\ probe.velocity = 0 /\ probe.target = 100 * Scale
              => probe'.velocity = 8 * Scale /\ probe'.current = 8 * Scale)]_vars

C1_Witness ==
    /\ probe0 = [current |-> 0, target |-> 100 * Scale, velocity |-> 0]
    /\ probeTicks = 1
    /\ probe.current = 8 * Scale /\ probe.velocity = 8 * Scale

StartsAtRest == probe0.current = probe0.target /\ probe0.velocity = 0

\* C2: a channel whose current equals its target and whose velocity is 0 keeps
\* that current and velocity 0 through any number of ticks with the target held.
C2_RestIsFixedPoint ==
    StartsAtRest => probe.current = probe0.current /\ probe.velocity = 0

C2_Witness ==
    /\ StartsAtRest /\ probe0.current = 100 * Scale
    /\ probeTicks = MaxSpringTicks /\ probe.current = 100 * Scale

StepTo100 == probe0 = [current |-> 0, target |-> 100 * Scale, velocity |-> 0]

\* C3: from rest at 0 with the target held at 100, |current - 100| < 1 at tick
\* 120 and at every later tick, once within 1 of the target the channel stays
\* within 1, and current stays between 0 and 200 throughout.
C3_Settles ==
    /\ [](StepTo100 =>
            /\ (probeTicks >= 120 => ProbeDistance < Scale)
            /\ probe.current >= 0 /\ probe.current <= 200 * Scale)
    /\ [][StepTo100 /\ ProbeDistance < Scale => ProbeDistance' < Scale]_vars

C3_Witness ==
    StepTo100 /\ probeTicks = MaxSpringTicks /\ ProbeDistance < Scale

\* the channel starts at rest at a value that is not its target
RestStep == probe0.velocity = 0 /\ probe0.current # probe0.target

\* C4 as stated: by the end of the run a channel started at rest away from its
\* target has been beyond the target at some tick.
C4_Overshoots ==
    RestStep /\ probeTicks = MaxSpringTicks => passed

\* C4 as amended: a channel started at rest away from its target is never beyond
\* the target, its distance to the target never grows, and the distance is below
\* 1 from tick 120 on.
C4_NoOvershoot ==
    /\ [](RestStep => ~passed /\ (probeTicks >= 120 => ProbeDistance < Scale))
    /\ [][RestStep => ProbeDistance' <= ProbeDistance]_vars

C4_Witness ==
    /\ RestStep /\ probe0.current = 100 * Scale /\ probe0.target = -50 * Scale
    /\ probeTicks = MaxSpringTicks /\ ~passed /\ ProbeDistance < Scale

-----------------------------------------------------------------------------
(* Properties of ParallaxController (Spec) *)

\* C5: a layer on a page of four layers has, after every event, exactly the state
\* it has on a page where it is the only layer and the scroll events are the same;
\* and each animate() takes every layer from its own prior state alone.
C5_Independence ==
    /\ [](soloStates[soloLayer] = layerStates[soloLayer])
    /\ [][ticks' = ticks + 1 =>
            \A l \in Layers :
                layerStates'[l] = IF IsInView(HeroTop(scrollY))
                                  THEN UpdateLayer(layerStates[l], HeroTop(scrollY))
                                  ELSE layerStates[l]]_vars

C5_Witness ==
    /\ ticks >= 3 /\ soloLayer = "layerMid"
    /\ soloStates["layerMid"].velocity # 0
    /\ layerStates["layerBack"].velocity # layerStates["layerMid"].velocity
    /\ layerStates["layerBack"].currentY # layerStates["layerMid"].currentY

C7_ScrollLeavesChannels ==
    /\ [][scrollY' # scrollY => Written(layerStates') = Written(layerStates)]_vars
    /\ [][Written(layerStates') # Written(layerStates) => ticks' = ticks + 1]_vars

\* scrolled from 200 to 500 after the first animate(): layerMid still holds what
\* that animate() wrote (target 60, current 4.8, velocity 4.8)
C7_Witness ==
    /\ targetScroll = 500 * Scale /\ scrollY = 500 * Scale
    /\ ticks = 1
    /\ layerStates["layerMid"].targetY = 60 * Scale
    /\ layerStates["layerMid"].currentY = (48 * Scale) \div 10
    /\ layerStates["layerMid"].velocity = (48 * Scale) \div 10

\* C9: while the controller runs, exactly one animation-frame callback is pending
\* and it is the one in rafId; none is pending before the first animate() or
\* after destroy(); and the currentY and velocity a tick reads are those the
\* preceding tick wrote.
C9_OneFramePending ==
    /\ pc = "running" => rafId # Null /\ rafPending = {rafId}
    /\ pc # "running" => rafPending = {}
    /\ Written(layerStates) = lastTick

C9_Witness ==
    /\ pc = "running" /\ ticks >= 3 /\ Cardinality(rafPending) = 1
    /\ layerStates["layerMid"].velocity # 0

-----------------------------------------------------------------------------
(* Properties of Carousel (SpecCarousel) *)

\* C10: after a mouseenter with no later mouseleave no interval timer is live.
C10_PausedOnHover == hovered => liveIntervals = {}

\* C11: the interval timers live in the browser are exactly the one whose handle
\* autoplayInterval holds: none when it is null, that one otherwise.
C11_OneInterval ==
    liveIntervals = IF autoplayInterval = Null THEN {} ELSE {autoplayInterval}

\* an interval restarted several times, the last time while the pointer was over
\* the container, and then once more by the mouseleave
C11_Witness ==
    /\ nextTimerId >= 4 /\ ~hovered
    /\ autoplayInterval = nextTimerId - 1 /\ liveIntervals = {autoplayInterval}

InRange == 0 <= currentIndex /\ currentIndex <= maxIndex

\* C12: after construction and after any sequence of next(), prev(), goToSlide(i)
\* (i from -1 to beyond the last slide) and resizes among 1, 2 and 3 slides per
\* view, 0 <= currentIndex <= maxIndex and maxIndex = max(0, totalSlides -
\* slidesPerView); pages with no slide and with fewer slides than fit are included.
C12_IndexInvariant ==
    /\ InRange
    /\ maxIndex = IF totalSlides - slidesPerView > 0 THEN totalSlides - slidesPerView ELSE 0
    /\ slidesPerView \in {1, 2, 3}

\* four slides shown three at a time, at the last index, after navigation
C12_Witness ==
    /\ totalSlides = 4 /\ slidesPerView = 3 /\ maxIndex = 1 /\ currentIndex = 1
    /\ nextTimerId >= 3

\* C13: when the snap-detection timeout has run syncIndexFromScroll(),
\* 0 <= currentIndex <= maxIndex, whatever track.scrollLeft was.
C13_SyncInRange ==
    [][scrollTimeout /\ ~scrollTimeout' => InRange']_vars

RECURSIVE NextTimes(_, _, _)
\* currentIndex after n consecutive calls of next()
NextTimes(n, index, maxIdx) ==
    IF n = 0 THEN index ELSE NextTimes(n - 1, next(index, maxIdx), maxIdx)

\* C14: at every index in [0, maxIndex], next() gives 0 at maxIndex and index + 1
\* otherwise, prev() gives maxIndex at 0 and index - 1 otherwise, next() then
\* prev() and prev() then next() give the index back, and maxIndex + 1 calls of
\* next() come back to it; and every step in which the autoplay interval calls
\* next() moves currentIndex that way.
C14_WrapAndInverse ==
    /\ [](InRange =>
            /\ next(currentIndex, maxIndex)
                 = IF currentIndex = maxIndex THEN 0 ELSE currentIndex + 1
            /\ prev(currentIndex, maxIndex)
                 = IF currentIndex = 0 THEN maxIndex ELSE currentIndex - 1
            /\ prev(next(currentIndex, maxIndex), maxIndex) = currentIndex
            /\ next(prev(currentIndex, maxIndex), maxIndex) = currentIndex
            /\ NextTimes(maxIndex + 1, currentIndex, maxIndex) = currentIndex)
    /\ [][InRange /\ autoplayAdvances' # autoplayAdvances =>
            currentIndex' = IF currentIndex = maxIndex THEN 0 ELSE currentIndex + 1]_vars

\* at the last of several indices, reached by autoplay: next() wraps to 0 from here
C14_Witness ==
    /\ maxIndex >= 2 /\ currentIndex = maxIndex /\ autoplayAdvances = 2

\* C15: after destroy() no interval timer is live.
C15_NoAutoplayAfterDestroy == destroyed => liveIntervals = {}

====
